---- MODULE Spec2Model ----
(***************************************************************************)
(* State-machine model of two coordination primitives of the collection    *)
(* crate:                                                                   *)
(*   - ClockSet / ClockGuard / Clock  (shards/replica_set/clock_set.rs)     *)
(*   - TransferTasksPool              (shards/transfer/transfer_tasks_pool.rs) *)
(*                                                                          *)
(* Spec      : the clock pool. Writers call get_clock, tick_once,           *)
(*             advance_to and drop their guards. get_clock takes &mut self, *)
(*             so at most one scan runs at a time, but guard operations of  *)
(*             other writers touch the clocks only through atomics and may  *)
(*             interleave with the per-clock lock attempts of a scan.       *)
(* PoolSpec  : the transfer task registry together with the task handles    *)
(*             and the transfer tasks it tracks.                            *)
(* ProgressSpec : get_task_progress and the progress updates of a transfer  *)
(*             task, both split into their accesses to the two counters     *)
(*             behind the progress lock.                                    *)
(***************************************************************************)
EXTENDS Integers, Sequences, FiniteSets, TLC

\* ------------------------------------------------------------------------
\* Bounds of the model
\* ------------------------------------------------------------------------
\* number of writer threads using one ClockSet
NumWriters == 2
\* largest value of the tick counter in the model (u64::MAX of the AtomicU64 in
\* the source); the counter wraps around from MaxTick to 0
MaxTick == 2
\* number of distinct transfer keys
NumKeys == 2
\* number of records of a transfer
MaxRecords == 2

Writers == 1..NumWriters
Keys == 1..NumKeys

\* number of values of the counter; fetch_add is arithmetic modulo TickModulus
TickModulus == MaxTick + 1
Ticks == 0..MaxTick

Max(a, b) == IF a >= b THEN a ELSE b
SetMin(S) == CHOOSE x \in S : \A y \in S : x <= y

\* Option::None
None == [none |-> TRUE]

\* ------------------------------------------------------------------------
\* State of the clock pool
\* ------------------------------------------------------------------------
VARIABLES
    heap,           \* the Arc<Clock> allocations, in order of creation
    clocks,         \* ClockSet.clocks: Vec<Arc<Clock>>, references into heap
    guard,          \* the live ClockGuard of each writer, or None
    pc,             \* position of each writer
    pos,            \* position of the enumerate() iterator of the running scan
    ret,            \* the last completed clock operation, its argument and the value
                    \* it returned (get_clock: the id of the returned guard)
    \* history variables
    availAtCall,    \* ids of the clocks that were available when the running
                    \* get_clock was called
    dropInScan,     \* a guard was dropped while the running scan was in progress
    anyDrop,        \* some guard has been dropped since construction
    callLog,        \* ids returned by get_clock, in call order, while no guard was dropped
    released,       \* per allocation: counter value at the guard drop that freed
                    \* it, -1 while held or never released
    lastRet,        \* per allocation: the value last returned by tick_once / advance_to
    maxLive,        \* largest number of simultaneously live guards so far
    maxInFlight     \* largest number of writes in flight at one instant so far:
                    \* live guards plus the get_clock call in progress

clockVars == <<heap, clocks, guard, pc, pos, ret,
               availAtCall, dropInScan, anyDrop, callLog, released, lastRet, maxLive,
               maxInFlight>>

\* ------------------------------------------------------------------------
\* State of the transfer task registry
\* ------------------------------------------------------------------------
VARIABLES
    tasks,          \* TransferTasksPool.tasks: key -> TransferTaskItem, or None
    stopCall,       \* the suspended stop_if_exists call: its key and the item it
                    \* removed and is cancelling, or None
    pret,           \* the last completed registry operation and what it returned
    \* history variables
    stopped,        \* keys removed by stop_if_exists and not added again since
    added,          \* keys that add_task was ever called for
    cancels         \* per key: how often cancel was invoked on the handle last
                    \* added under the key

poolVars == <<tasks, stopCall, pret, stopped, added, cancels>>

\* ------------------------------------------------------------------------
\* State of the progress locks (Arc<Mutex<TransferTaskProgress>>) and of the
\* two parties that take them
\* ------------------------------------------------------------------------
VARIABLES
    plock,          \* per key: the holder of the progress Mutex of the tracked
                    \* item: "free", "reader" or "task"
    rd,             \* the get_task_progress call that is copying the progress:
                    \* its key and the records_done it has copied, or None
    wr,             \* per key: the update the transfer task is in the middle
                    \* of: the pair before it and the pair it writes, or None
    \* history variables
    seen            \* the pairs the progress has held since the running
                    \* get_task_progress call looked up its entry

progVars == <<plock, rd, wr, seen>>

vars == <<clockVars, poolVars, progVars>>

\* ------------------------------------------------------------------------
\* Clock
\* ------------------------------------------------------------------------
\* a clock that is created locked
new_unlocked_locked == [clock |-> 0, available |-> FALSE]

\* Clock::new_unlocked
new_unlocked == [clock |-> 0, available |-> TRUE]

\* ClockGuard::new
ClockGuardNew(id, clock) == [id |-> id, clock |-> clock]

\* a lock attempt that does not look at the flag it swaps
try_lock_always(h, self, id) ==
    [heap  |-> [h EXCEPT ![self].available = FALSE],
     guard |-> ClockGuardNew(id, self)]

\* a lock attempt that loads the flag instead of swapping it
try_lock_load(h, self, id) ==
    [heap  |-> h,
     guard |-> IF h[self].available THEN ClockGuardNew(id, self) ELSE None]

\* a lock attempt that flips the flag: it takes a free clock and frees a
\* held one
try_lock_toggle(h, self, id) ==
    [heap  |-> [h EXCEPT ![self].available = ~h[self].available],
     guard |-> IF h[self].available THEN ClockGuardNew(id, self) ELSE None]

\* Clock::try_lock on the allocation self of heap h: swap(false) on available,
\* a guard iff the previous value was true.
try_lock(h, self, id) ==
    [heap  |-> [h EXCEPT ![self].available = FALSE],
     guard |-> IF h[self].available THEN ClockGuardNew(id, self) ELSE None]

\* a release that re-initialises the clock
release_reset(h, self) == [h EXCEPT ![self] = [clock |-> 0, available |-> TRUE]]

\* a release that stores nothing
release_noop(h, self) == h

\* Clock::release: store(true) on available
release(h, self) == [h EXCEPT ![self].available = TRUE]

\* Clock::tick_once: fetch_add(1) wraps around; the "+ 1" on the fetched value
\* overflows at the maximum: a panic when the build checks overflow, a wrap
\* otherwise.
tick_once(h, self, checks) ==
    LET prev == h[self].clock IN
    [heap  |-> [h EXCEPT ![self].clock = (prev + 1) % TickModulus],
     panic |-> checks /\ prev + 1 > MaxTick,
     val   |-> (prev + 1) % TickModulus]

\* an advance that stores the new tick instead of taking the maximum
advance_to_store(h, self, new_tick) ==
    [heap |-> [h EXCEPT ![self].clock = new_tick],
     val  |-> Max(h[self].clock, new_tick)]

\* Clock::advance_to: fetch_max(new_tick), returns max(previous, new_tick)
advance_to(h, self, new_tick) ==
    LET current_tick == h[self].clock IN
    [heap |-> [h EXCEPT ![self].clock = Max(current_tick, new_tick)],
     val  |-> Max(current_tick, new_tick)]

\* ------------------------------------------------------------------------
\* ClockSet
\* ------------------------------------------------------------------------
\* a new_clock that takes the id after the push
new_clock_idAfterPush(h, cs) ==
    LET clock == Len(h) + 1
        h1    == Append(h, [clock |-> 0, available |-> TRUE])
        cs1   == Append(cs, clock)
        id    == Len(cs1)
    IN  [heap   |-> [h1 EXCEPT ![clock].available = FALSE],
         clocks |-> cs1,
         guard  |-> [id |-> id, clock |-> clock]]

\* a new_clock that puts the clock at the front of the pool
new_clock_pushFront(h, cs) ==
    LET id    == Len(cs)
        clock == Len(h) + 1
        h1    == Append(h, new_unlocked)
        cs1   == <<clock>> \o cs
        r     == try_lock(h1, clock, id)
    IN  [heap |-> r.heap, clocks |-> cs1, guard |-> r.guard]

\* ClockSet::new_clock on pool cs and heap h
new_clock(h, cs) ==
    LET id    == Len(cs)
        clock == Len(h) + 1
        h1    == Append(h, new_unlocked)
        cs1   == Append(cs, clock)
        r     == try_lock(h1, clock, id)
    IN  [heap |-> r.heap, clocks |-> cs1, guard |-> r.guard]

Live == {w \in Writers : guard[w] # None}
Scanning == {w \in Writers : pc[w] = "scan"}
AvailableIds == {i \in 0..(Len(clocks) - 1) : heap[clocks[i + 1]].available}

NoRet == [op |-> "none", arg |-> 0, val |-> 0]

ClockInit ==
    /\ heap = <<>>
    /\ clocks = <<>>
    /\ guard = [w \in Writers |-> None]
    /\ pc = [w \in Writers |-> "idle"]
    /\ pos = 0
    /\ ret = NoRet
    /\ availAtCall = {}
    /\ dropInScan = FALSE
    /\ anyDrop = FALSE
    /\ callLog = <<>>
    /\ released = <<>>
    /\ lastRet = <<>>
    /\ maxLive = 0
    /\ maxInFlight = 0

\* the guard g is handed to writer w: get_clock returns
Return(w, g, h1, cs1) ==
    /\ heap' = h1
    /\ clocks' = cs1
    /\ guard' = [guard EXCEPT ![w] = g]
    /\ pc' = [pc EXCEPT ![w] = "held"]
    /\ pos' = 0
    /\ ret' = [op |-> "get_clock", arg |-> 0, val |-> g.id]
    /\ availAtCall' = {}
    /\ dropInScan' = FALSE
    /\ callLog' = IF anyDrop THEN callLog ELSE Append(callLog, g.id)
    /\ released' = IF Len(h1) > Len(heap) THEN Append(released, -1)
                   ELSE [released EXCEPT ![g.clock] = -1]
    /\ lastRet' = IF Len(h1) > Len(heap) THEN Append(lastRet, 0) ELSE lastRet
    /\ maxLive' = Max(maxLive, Cardinality(Live \cup {w}))
    /\ UNCHANGED <<anyDrop, maxInFlight>>

\* ClockSet::get_clock is called by writer w (exclusive access to the ClockSet):
\* the iterator over the clocks is created
GetClockCall(w) ==
    /\ UNCHANGED <<poolVars, progVars>>
    /\ pc[w] = "idle"
    /\ Scanning = {}
    /\ pc' = [pc EXCEPT ![w] = "scan"]
    /\ pos' = 0
    /\ availAtCall' = AvailableIds
    /\ dropInScan' = FALSE
    /\ maxInFlight' = Max(maxInFlight, Cardinality(Live) + 1)
    /\ UNCHANGED <<heap, clocks, guard, ret, anyDrop, callLog,
                   released, lastRet, maxLive>>

\* one application of the find_map closure: clock.try_lock(id) on the next clock
GetClockTryLock(w) ==
    /\ UNCHANGED <<poolVars, progVars>>
    /\ pc[w] = "scan"
    /\ pos < Len(clocks)
    /\ LET r == try_lock(heap, clocks[pos + 1], pos) IN
       IF r.guard # None
       THEN Return(w, r.guard, r.heap, clocks)
       ELSE /\ heap' = r.heap
            /\ pos' = pos + 1
            /\ UNCHANGED <<clocks, guard, pc, ret,
                           availAtCall, dropInScan, anyDrop, callLog, released,
                           lastRet, maxLive, maxInFlight>>

\* find_map returned None: unwrap_or_else(|| self.new_clock()); the unwrap of
\* new_clock panics if the lock attempt on the new clock fails
GetClockNewClock(w) ==
    /\ UNCHANGED <<poolVars, progVars>>
    /\ pc[w] = "scan"
    /\ pos >= Len(clocks)
    /\ LET r == new_clock(heap, clocks) IN
       IF r.guard # None
       THEN Return(w, r.guard, r.heap, r.clocks)
       ELSE /\ heap' = r.heap
            /\ clocks' = r.clocks
            /\ pc' = [pc EXCEPT ![w] = "panic_unwrap"]
            /\ pos' = 0
            /\ released' = Append(released, -1)
            /\ lastRet' = Append(lastRet, 0)
            /\ UNCHANGED <<guard, ret, availAtCall,
                           dropInScan, anyDrop, callLog, maxLive, maxInFlight>>

\* ClockGuard::tick_once by the holder w. Whether the overflowing "+ 1" panics
\* or wraps depends on the build (overflow checks on or off).
TickOnce(w) ==
    /\ UNCHANGED <<poolVars, progVars>>
    /\ pc[w] = "held"
    /\ \E checks \in BOOLEAN :
       LET r == tick_once(heap, guard[w].clock, checks) IN
       /\ heap' = r.heap
       /\ IF r.panic
          THEN /\ pc' = [pc EXCEPT ![w] = "panic_overflow"]
               /\ ret' = [op |-> "tick_once_panic", arg |-> 0, val |-> 0]
               /\ UNCHANGED lastRet
          ELSE /\ pc' = pc
               /\ ret' = [op |-> "tick_once", arg |-> 0, val |-> r.val]
               /\ lastRet' = [lastRet EXCEPT ![guard[w].clock] = r.val]
    /\ UNCHANGED <<clocks, guard, pos, availAtCall, dropInScan, anyDrop, callLog,
                   released, maxLive, maxInFlight>>

\* ClockGuard::advance_to(new_tick) by the holder w
AdvanceTo(w, new_tick) ==
    /\ UNCHANGED <<poolVars, progVars>>
    /\ pc[w] = "held"
    /\ LET r == advance_to(heap, guard[w].clock, new_tick) IN
       /\ heap' = r.heap
       /\ ret' = [op |-> "advance_to", arg |-> new_tick, val |-> r.val]
       /\ lastRet' = [lastRet EXCEPT ![guard[w].clock] = r.val]
    /\ UNCHANGED <<clocks, guard, pc, pos, availAtCall,
                   dropInScan, anyDrop, callLog, released, maxLive, maxInFlight>>

\* impl Drop for ClockGuard: the guard of w goes out of scope, also when a
\* panic unwinds the holder; the write is over and its slot is free again
DropGuard(w) ==
    /\ UNCHANGED <<poolVars, progVars>>
    /\ pc[w] \in {"held", "panic_overflow"}
    /\ guard[w] # None
    /\ heap' = release(heap, guard[w].clock)
    /\ released' = [released EXCEPT ![guard[w].clock] = heap[guard[w].clock].clock]
    /\ guard' = [guard EXCEPT ![w] = None]
    /\ pc' = [pc EXCEPT ![w] = "idle"]
    /\ dropInScan' = (Scanning # {})
    /\ anyDrop' = TRUE
    /\ callLog' = <<>>
    /\ ret' = [op |-> "drop", arg |-> 0, val |-> 0]
    /\ UNCHANGED <<clocks, pos, availAtCall, lastRet, maxLive, maxInFlight>>

\* ------------------------------------------------------------------------
\* CancellableAsyncTaskHandle<bool> (crate::common::stoppable_task_async):
\* the handle of a transfer task. The task runs until it finishes with success,
\* finishes with failure, is stopped by a cancellation or ends in an execution
\* error.
\* ------------------------------------------------------------------------
Some(x) == [some |-> x]

TaskStates == {"running", "ok", "failed", "stopped", "error"}

\* a task that was just spawned
NewTask == [state |-> "running", cancel |-> FALSE]

\* is_finished(): non-blocking poll
is_finished(t) == t.state # "running"

\* get_result(): the success flag once the task is finished
get_result(t) ==
    CASE t.state = "running" -> None
      [] t.state = "ok"      -> Some(TRUE)
      [] OTHER               -> Some(FALSE)

\* cancel(), first half: the cancellation is requested
cancel_request(t) == [t EXCEPT !.cancel = TRUE]

\* cancel(), second half: what the await yields once the task is over:
\* Ok(true) = finished, Ok(false) = stopped before finishing, Err = execution error
cancel_outcome(t) ==
    CASE t.state = "ok"    -> "Ok(true)"
      [] t.state = "error" -> "Err"
      [] OTHER             -> "Ok(false)"

\* ------------------------------------------------------------------------
\* TransferTasksPool
\* ------------------------------------------------------------------------
\* TransferTaskProgress::default
ProgressDefault == [records_done |-> 0, records_total |-> 0]

\* a TransferTaskItem as the orchestrator passes it to add_task
NewItem == [task |-> NewTask, progress |-> ProgressDefault]

\* TransferTasksPool::new
PoolNew == [k \in Keys |-> None]

\* a check that reports the finished tasks
check_if_still_running_finished(ts, key) ==
    IF ts[key] = None THEN FALSE ELSE is_finished(ts[key].task)

\* TransferTasksPool::check_if_still_running
check_if_still_running(ts, key) ==
    IF ts[key] = None THEN FALSE ELSE ~is_finished(ts[key].task)

\* a lookup that reports a task that has no result yet as unsuccessful
get_task_result_unwrap(ts, key) ==
    IF ts[key] = None THEN None
    ELSE IF get_result(ts[key].task) = None THEN Some(FALSE)
         ELSE get_result(ts[key].task)

\* TransferTasksPool::get_task_result
get_task_result(ts, key) ==
    IF ts[key] = None THEN None ELSE get_result(ts[key].task)

\* TransferTasksPool::get_task_progress
get_task_progress(ts, key) ==
    IF ts[key] = None THEN None ELSE Some(ts[key].progress)

\* a lookup that leaves the entry in the map
tasks_remove_get(ts, key) == [tasks |-> ts, item |-> ts[key]]

\* self.tasks.remove(transfer_key) in stop_if_exists
tasks_remove(ts, key) == [tasks |-> [ts EXCEPT ![key] = None], item |-> ts[key]]

\* a mapping that mixes up the two Ok outcomes
stop_result_swapped(res) ==
    CASE res = "Ok(true)"  -> "Stopped"
      [] res = "Ok(false)" -> "Finished"
      [] OTHER             -> "Failed"

\* the match on task.task.cancel().await in stop_if_exists
stop_result(res) ==
    CASE res = "Ok(true)"  -> "Finished"
      [] res = "Ok(false)" -> "Stopped"
      [] OTHER             -> "Failed"

\* self.tasks.insert(shard_transfer.key(), item) in add_task
tasks_insert(ts, key, item) == [ts EXCEPT ![key] = item]

\* an acquisition that does not wait for the holder of the lock
progress_lock_racy(l, who) == [ok |-> TRUE, lock |-> l]

\* task.progress.lock(): the Mutex is acquired by who once it is free
progress_lock(l, who) == [ok |-> l = "free", lock |-> who]

\* the MutexGuard temporary is dropped
progress_unlock(l, who) == IF l = who THEN "free" ELSE l

\* the updates a running transfer makes to its progress, each inside one
\* critical section of the progress lock: it learns the total, it learns the
\* total together with the first record it has moved, or it has moved one
\* more record
progress_updates(p) ==
    IF p.records_total = 0
    THEN {[records_done |-> 0, records_total |-> MaxRecords],
          [records_done |-> 1, records_total |-> MaxRecords]}
    ELSE IF p.records_done < p.records_total
         THEN {[p EXCEPT !.records_done = @ + 1]}
         ELSE {}

NoPoolRet == [op |-> "none", key |-> 0, val |-> [unit |-> TRUE]]

PoolInit ==
    /\ tasks = PoolNew
    /\ stopCall = None
    /\ pret = NoPoolRet
    /\ stopped = {}
    /\ added = {}
    /\ cancels = [k \in Keys |-> 0]

ProgInit ==
    /\ plock = [k \in Keys |-> "free"]
    /\ rd = None
    /\ wr = [k \in Keys |-> None]
    /\ seen = {}

\* The methods of the registry take &self or &mut self, and the future of
\* stop_if_exists keeps its &mut borrow while it awaits the cancellation: no
\* other method of the registry runs while a stop_if_exists call is suspended.

\* TransferTasksPool::add_task (&mut self: no get_task_progress call is
\* running). The item comes with a progress of its own, behind a lock of its
\* own; what the task of a replaced item writes no longer reaches the registry.
AddTask(k) ==
    /\ UNCHANGED clockVars
    /\ stopCall = None
    /\ rd = None
    /\ plock' = [plock EXCEPT ![k] = "free"]
    /\ wr' = [wr EXCEPT ![k] = None]
    /\ UNCHANGED <<rd, seen>>
    /\ tasks' = tasks_insert(tasks, k, NewItem)
    /\ pret' = [op |-> "add_task", key |-> k, val |-> [unit |-> TRUE]]
    /\ stopped' = stopped \ {k}
    /\ added' = added \cup {k}
    /\ cancels' = [cancels EXCEPT ![k] = 0]
    /\ UNCHANGED stopCall

\* TransferTasksPool::check_if_still_running
CheckIfStillRunning(k) ==
    /\ UNCHANGED <<clockVars, progVars>>
    /\ stopCall = None
    /\ pret' = [op |-> "check_if_still_running", key |-> k,
                val |-> [running |-> check_if_still_running(tasks, k)]]
    /\ UNCHANGED <<tasks, stopCall, stopped, added, cancels>>

\* TransferTasksPool::get_task_result
GetTaskResult(k) ==
    /\ UNCHANGED <<clockVars, progVars>>
    /\ stopCall = None
    /\ pret' = [op |-> "get_task_result", key |-> k,
                val |-> [result |-> get_task_result(tasks, k)]]
    /\ UNCHANGED <<tasks, stopCall, stopped, added, cancels>>

\* TransferTasksPool::get_task_progress
GetTaskProgress(k) ==
    /\ UNCHANGED <<clockVars, progVars>>
    /\ stopCall = None
    /\ pret' = [op |-> "get_task_progress", key |-> k,
                val |-> [progress |-> get_task_progress(tasks, k)]]
    /\ UNCHANGED <<tasks, stopCall, stopped, added, cancels>>

\* TransferTasksPool::stop_if_exists up to its suspension point: the entry is
\* removed and the cancellation of its task requested; without an entry the
\* call returns NotFound at once
StopIfExists(k) ==
    /\ UNCHANGED <<clockVars, progVars>>
    /\ stopCall = None
    /\ LET r == tasks_remove(tasks, k) IN
       IF r.item # None
       THEN /\ tasks' = r.tasks
            /\ stopCall' = [key |-> k, task |-> cancel_request(r.item.task)]
            /\ stopped' = stopped \cup {k}
            /\ cancels' = [cancels EXCEPT ![k] = @ + 1]
            /\ UNCHANGED <<pret, added>>
       ELSE /\ tasks' = r.tasks
            /\ pret' = [op |-> "stop_if_exists", key |-> k, val |-> [outcome |-> "NotFound"]]
            /\ UNCHANGED <<stopCall, stopped, added, cancels>>

\* TransferTasksPool::stop_if_exists after its suspension point: the
\* cancellation has resolved and its outcome is mapped to a TaskResult
StopIfExistsResume ==
    /\ UNCHANGED <<clockVars, progVars>>
    /\ stopCall # None
    /\ is_finished(stopCall.task)
    /\ pret' = [op |-> "stop_if_exists", key |-> stopCall.key,
                val |-> [outcome |-> stop_result(cancel_outcome(stopCall.task))]]
    /\ stopCall' = None
    /\ UNCHANGED <<tasks, stopped, added, cancels>>

\* a tracked transfer task ends by itself: with success, with failure or with
\* an execution error
TaskEnds(k, outcome) ==
    /\ UNCHANGED <<clockVars, progVars>>
    /\ tasks[k] # None
    /\ tasks[k].task.state = "running"
    /\ tasks' = [tasks EXCEPT ![k].task.state = outcome]
    /\ UNCHANGED <<stopCall, pret, stopped, added, cancels>>

\* a tracked transfer task updates its progress inside one critical section of
\* the progress lock, seen as one step
TaskUpdatesProgress(k) ==
    /\ UNCHANGED <<clockVars, progVars>>
    /\ tasks[k] # None
    /\ tasks[k].task.state = "running"
    /\ \E p \in progress_updates(tasks[k].progress) :
          tasks' = [tasks EXCEPT ![k].progress = p]
    /\ UNCHANGED <<stopCall, pret, stopped, added, cancels>>

\* the task whose cancellation is awaited ends: it observes the cancellation
\* and stops, or it ends by itself before it does
CancelledTaskEnds(outcome) ==
    /\ UNCHANGED <<clockVars, progVars>>
    /\ stopCall # None
    /\ stopCall.task.state = "running"
    /\ stopCall' = [stopCall EXCEPT !.task.state = outcome]
    /\ UNCHANGED <<tasks, pret, stopped, added, cancels>>

\* ------------------------------------------------------------------------
\* get_task_progress and the update of a transfer task, step by step: both
\* take the progress lock and touch records_done and records_total one after
\* the other.
\* ------------------------------------------------------------------------
\* TransferTasksPool::get_task_progress, first half: the entry is looked up;
\* without one the call returns None, otherwise the lock is acquired and
\* records_done is copied
GetTaskProgressBegin(k) ==
    /\ UNCHANGED clockVars
    /\ stopCall = None
    /\ rd = None
    /\ IF tasks[k] = None
       THEN /\ pret' = [op |-> "get_task_progress", key |-> k,
                        val |-> [progress |-> None]]
            /\ UNCHANGED <<plock, rd, seen>>
       ELSE LET r == progress_lock(plock[k], "reader") IN
            /\ r.ok
            /\ plock' = [plock EXCEPT ![k] = r.lock]
            /\ rd' = [key |-> k, records_done |-> tasks[k].progress.records_done]
            /\ seen' = {IF wr[k] = None THEN tasks[k].progress ELSE wr[k].from}
            /\ UNCHANGED pret
    /\ UNCHANGED <<tasks, stopCall, stopped, added, cancels, wr>>

\* TransferTasksPool::get_task_progress, second half: records_total is copied,
\* the lock released and the copy returned
GetTaskProgressEnd ==
    /\ UNCHANGED clockVars
    /\ rd # None
    /\ pret' = [op |-> "get_task_progress", key |-> rd.key,
                val |-> [progress |->
                    Some([records_done  |-> rd.records_done,
                          records_total |-> tasks[rd.key].progress.records_total])]]
    /\ plock' = [plock EXCEPT ![rd.key] = progress_unlock(@, "reader")]
    /\ rd' = None
    /\ seen' = {}
    /\ UNCHANGED <<tasks, stopCall, stopped, added, cancels, wr>>

\* the transfer task starts an update: it acquires the lock of its progress
\* and writes records_done
TaskWritesDone(k) ==
    /\ UNCHANGED clockVars
    /\ tasks[k] # None
    /\ tasks[k].task.state = "running"
    /\ wr[k] = None
    /\ LET r == progress_lock(plock[k], "task") IN
       /\ r.ok
       /\ plock' = [plock EXCEPT ![k] = r.lock]
    /\ \E p \in progress_updates(tasks[k].progress) :
          /\ wr' = [wr EXCEPT ![k] = [from |-> tasks[k].progress, to |-> p]]
          /\ tasks' = [tasks EXCEPT ![k].progress.records_done = p.records_done]
    /\ UNCHANGED <<stopCall, pret, stopped, added, cancels, rd, seen>>

\* the transfer task completes its update: it writes records_total and
\* releases the lock
TaskWritesTotal(k) ==
    /\ UNCHANGED clockVars
    /\ wr[k] # None
    /\ tasks' = [tasks EXCEPT ![k].progress.records_total = wr[k].to.records_total]
    /\ plock' = [plock EXCEPT ![k] = progress_unlock(@, "task")]
    /\ wr' = [wr EXCEPT ![k] = None]
    /\ seen' = IF rd # None /\ rd.key = k THEN seen \cup {wr[k].to} ELSE seen
    /\ UNCHANGED <<stopCall, pret, stopped, added, cancels, rd>>

Init == ClockInit /\ PoolInit /\ ProgInit

Next ==
    \/ \E w \in Writers : GetClockCall(w)
    \/ \E w \in Writers : GetClockTryLock(w)
    \/ \E w \in Writers : GetClockNewClock(w)
    \/ \E w \in Writers : TickOnce(w)
    \/ \E w \in Writers, new_tick \in Ticks : AdvanceTo(w, new_tick)
    \/ \E w \in Writers : DropGuard(w)

Spec == Init /\ [][Next]_vars

PoolNext ==
    \/ \E k \in Keys : AddTask(k)
    \/ \E k \in Keys : CheckIfStillRunning(k)
    \/ \E k \in Keys : GetTaskResult(k)
    \/ \E k \in Keys : GetTaskProgress(k)
    \/ \E k \in Keys : StopIfExists(k)
    \/ StopIfExistsResume
    \/ \E k \in Keys, outcome \in {"ok", "failed", "error"} : TaskEnds(k, outcome)
    \/ \E k \in Keys : TaskUpdatesProgress(k)
    \/ \E outcome \in {"ok", "failed", "error", "stopped"} : CancelledTaskEnds(outcome)

PoolSpec == Init /\ [][PoolNext]_vars

ProgressNext ==
    \/ \E k \in Keys : AddTask(k)
    \/ \E k \in Keys : GetTaskProgressBegin(k)
    \/ GetTaskProgressEnd
    \/ \E k \in Keys : TaskWritesDone(k)
    \/ \E k \in Keys : TaskWritesTotal(k)

ProgressSpec == Init /\ [][ProgressNext]_vars

\* ------------------------------------------------------------------------
\* Properties of the clock pool
\* ------------------------------------------------------------------------
TypeOK ==
    /\ Len(clocks) <= Len(heap)
    /\ pos \in 0..Len(clocks)
    /\ \A w \in Writers : guard[w] # None => guard[w].clock \in 1..Len(heap)

\* the counter of the clock behind pool id i
Counter(i) == heap[clocks[i + 1]].clock
\* the clock behind pool id i is held
Held(i) == ~heap[clocks[i + 1]].available

\* the step drops the guard of w
DropStep(w) == guard[w] # None /\ guard'[w] = None
\* the step is a step of a get_clock call of w
GetClockStep(w) ==
    \/ pc[w] = "idle" /\ pc'[w] = "scan"
    \/ pc[w] = "scan" /\ (pos' # pos \/ pc'[w] # "scan")

\* C1: under every interleaving of get_clock scans, ticks, advances and guard
\* drops, no two live guards reference the same clock, and a writer obtains a
\* guard for a clock only in a step before which no live guard for that clock
\* existed.
C1_ExclusiveGuards ==
    /\ [](\A w1, w2 \in Live : w1 # w2 => guard[w1].clock # guard[w2].clock)
    /\ [][\A w \in Writers :
            (guard[w] = None /\ guard'[w] # None) =>
                \A v \in Live : guard[v].clock # guard'[w].clock]_vars

\* a lock attempt of a scan has failed on a clock that another writer holds
C1_Witness ==
    \E w \in Scanning :
        /\ pos = 1
        /\ \E v \in Live : guard[v].clock = clocks[1]

\* C2: as long as no guard has been dropped, the k get_clock calls made so far
\* returned the ids 0, 1, ..., k-1 in call order, the live guards have
\* pairwise-distinct ids, and the pool holds exactly k clocks, as many as
\* there are live guards.
C2_DistinctIdsNoRelease ==
    ~anyDrop =>
        /\ \A j \in 1..Len(callLog) : callLog[j] = j - 1
        /\ Len(clocks) = Len(callLog)
        /\ Len(clocks) = Cardinality(Live)
        /\ {guard[w].id : w \in Live} = 0..(Len(callLog) - 1)
        /\ \A w1, w2 \in Live : w1 # w2 => guard[w1].id # guard[w2].id

\* every writer holds a guard and none was ever dropped
C2_Witness ==
    /\ ~anyDrop
    /\ Live = Writers
    /\ Len(callLog) = NumWriters

\* C3: a scan starts at id 0 and moves to the next id only after the lock
\* attempt on the current one failed on a held clock; the returned guard is for
\* the clock at the scan position, which was not held; a clock is appended only
\* when every existing clock was attempted and found held, and then exactly one
\* is appended, with the id of the pool length before the call. The returned id
\* is never above the lowest id that was free when get_clock was called, and is
\* that id (or the old pool length if none was free) when no guard was dropped
\* during the scan.
C3_FirstFreeOrAppend ==
    [][\A w \in Writers :
        /\ (pc[w] = "idle" /\ pc'[w] = "scan") => pos' = 0
        /\ (pc[w] = "scan" /\ pc'[w] = "scan" /\ pos' # pos) =>
              /\ pos < Len(clocks)
              /\ Held(pos)
              /\ pos' = pos + 1
              /\ clocks' = clocks
        /\ (pc[w] = "scan" /\ pc'[w] # "scan") =>
              /\ pc'[w] = "held"
              /\ guard'[w] # None
              /\ guard'[w].id = pos
              /\ ret' = [op |-> "get_clock", arg |-> 0, val |-> pos]
              /\ IF pos < Len(clocks)
                 THEN /\ ~Held(pos)
                      /\ guard'[w].clock = clocks[pos + 1]
                      /\ clocks' = clocks
                 ELSE /\ pos = Len(clocks)
                      /\ Len(clocks') = Len(clocks) + 1
                      /\ SubSeq(clocks', 1, Len(clocks)) = clocks
                      /\ guard'[w].clock = clocks'[pos + 1]
                      /\ ~dropInScan => AvailableIds = {}
              /\ \A i \in availAtCall : pos <= i
              /\ ~dropInScan => pos = SetMin(availAtCall \cup {Len(clocks)})]_vars

\* get_clock returned id 0 while the clocks 0 and 1 were both free
C3_Witness ==
    /\ ret.op = "get_clock"
    /\ ret.val = 0
    /\ Len(clocks) = 2
    /\ heap[clocks[2]].available
    /\ ~heap[clocks[1]].available
    /\ Cardinality(Live) = 1

C5_TickOnceIncrements ==
    [][\A w \in Writers :
        (pc[w] = "held" /\ TickOnce(w)) =>
            LET a == guard[w].clock IN
            /\ heap'[a].clock = heap[a].clock + 1
            /\ ret' = [op |-> "tick_once", arg |-> 0, val |-> heap[a].clock + 1]]_vars

\* C6: advance_to(v) on a clock at C returns max(C, v) and leaves the counter at
\* max(C, v); with v <= C nothing stored changes.
C6_AdvanceToMax ==
    [][\A w \in Writers :
        (pc[w] = "held" /\ ret'.op = "advance_to" /\ AdvanceTo(w, ret'.arg)) =>
            LET a == guard[w].clock
                v == ret'.arg
                C == heap[a].clock IN
            /\ ret' = [op |-> "advance_to", arg |-> v, val |-> Max(C, v)]
            /\ heap'[a].clock = Max(C, v)
            /\ heap'[a].clock >= C
            /\ v <= C => heap' = heap]_vars

\* advance_to was called with a value below the counter
C6_Witness ==
    /\ ret.op = "advance_to"
    /\ ret.arg < ret.val
    /\ \E w \in Live : pc[w] = "held" /\ heap[guard[w].clock].clock = ret.val

\* C7: the stored counter of a clock never decreases, and the values returned
\* by successive tick_once / advance_to calls on it never decrease, across
\* releases and holders.
C7_CounterMonotone ==
    [][\A a \in 1..Len(heap) :
        /\ heap'[a].clock >= heap[a].clock
        /\ lastRet'[a] >= lastRet[a]]_vars

\* C8: a get_clock call in progress can always take its next step, the scan
\* position stays within the pool, every step of it either moves to the next
\* clock or returns a guard, and the unwrap in new_clock never fails.
C8_GetClockNeverFails ==
    /\ [](\A w \in Writers :
            /\ pc[w] # "panic_unwrap"
            /\ pc[w] = "scan" =>
                 /\ pos <= Len(clocks)
                 /\ ENABLED (GetClockTryLock(w) \/ GetClockNewClock(w)))
    /\ [][\A w \in Writers :
            (pc[w] = "scan" /\ (GetClockTryLock(w) \/ GetClockNewClock(w))) =>
                \/ pc'[w] = "scan" /\ pos' = pos + 1 /\ pos' <= Len(clocks')
                \/ pc'[w] = "held" /\ guard'[w] # None]_vars

\* get_clock has appended a clock and returned its guard while the other
\* clock was held
C8_Witness ==
    /\ ret.op = "get_clock"
    /\ ret.val = 1
    /\ Len(clocks) = 2
    /\ Cardinality(Live) = 2
    /\ pc = [w \in Writers |-> "held"]

\* ------------------------------------------------------------------------
\* Properties of the transfer task registry
\* ------------------------------------------------------------------------
StopRet(k, result) == [op |-> "stop_if_exists", key |-> k, val |-> [outcome |-> result]]

\* C9: stop_if_exists(key) returns NotFound exactly when the registry has no
\* entry for key at the call, and then changes nothing; otherwise it removes
\* the entry, requests the cancellation of that entry's task, and what it
\* returns after the cancellation resolved is Finished iff cancel yields
\* Ok(true), Stopped iff it yields Ok(false) and Failed iff it yields an error.
C9_StopIfExistsOutcome ==
    [][/\ \A k \in Keys :
            (/\ stopCall = None
             /\ stopCall' # None \/ pret'.op = "stop_if_exists"
             /\ StopIfExists(k)) =>
                IF tasks[k] = None
                THEN /\ pret' = StopRet(k, "NotFound")
                     /\ tasks' = tasks
                     /\ stopCall' = None
                ELSE /\ tasks' = [tasks EXCEPT ![k] = None]
                     /\ stopCall' # None
                     /\ stopCall'.key = k
                     /\ stopCall'.task.cancel
                     /\ stopCall'.task.state = tasks[k].task.state
                     /\ pret' = pret
       /\ (stopCall # None /\ StopIfExistsResume) =>
            LET res == cancel_outcome(stopCall.task) IN
            /\ pret'.op = "stop_if_exists"
            /\ pret'.key = stopCall.key
            /\ pret'.val.outcome \in {"Finished", "Stopped", "Failed"}
            /\ pret'.val.outcome = "Finished" <=> res = "Ok(true)"
            /\ pret'.val.outcome = "Stopped" <=> res = "Ok(false)"
            /\ pret'.val.outcome = "Failed" <=> res = "Err"
            /\ tasks'[stopCall.key] = None]_vars

\* stop_if_exists has returned Failed for a task that ended in an error
C9_Witness ==
    /\ pret.op = "stop_if_exists"
    /\ pret.val.outcome = "Failed"
    /\ stopCall = None
    /\ tasks[pret.key] = None

\* C10: from the stop_if_exists call that removed a key until the next
\* add_task for it, the key is absent, whatever the outcome of the call:
\* get_task_progress and get_task_result give None, check_if_still_running
\* gives false, and another stop_if_exists returns NotFound.
C10_AbsentAfterStop ==
    /\ [](\A k \in stopped :
            /\ tasks[k] = None
            /\ get_task_progress(tasks, k) = None
            /\ get_task_result(tasks, k) = None
            /\ ~check_if_still_running(tasks, k))
    /\ [][\A k \in stopped :
            /\ (/\ stopCall = None
                /\ stopCall' # None \/ pret'.op = "stop_if_exists"
                /\ StopIfExists(k)) =>
                    pret' = StopRet(k, "NotFound") /\ stopCall' = None
            /\ (pret'.op = "get_task_progress" /\ GetTaskProgress(k)) =>
                    pret'.val.progress = None
            /\ (pret'.op = "get_task_result" /\ GetTaskResult(k)) =>
                    pret'.val.result = None
            /\ (pret'.op = "check_if_still_running" /\ CheckIfStillRunning(k)) =>
                    pret'.val.running = FALSE]_vars

\* the second of two stop_if_exists calls for a key has returned NotFound
C10_Witness ==
    /\ pret.op = "stop_if_exists"
    /\ pret.val.outcome = "NotFound"
    /\ pret.key \in stopped

\* C11: stop_if_exists removes the entry before it awaits the cancellation, so
\* that under every interleaving of stop_if_exists calls for a key cancel is
\* invoked at most once on a task handle: the call that obtains the entry finds
\* a handle that was never cancelled and leaves no entry behind while it
\* awaits, and every stop_if_exists for the key after it returns NotFound
\* without cancelling anything.
C11_CancelAtMostOnce ==
    /\ [](\A k \in Keys : cancels[k] <= 1)
    /\ [](stopCall # None => tasks[stopCall.key] = None)
    /\ [][\A k \in Keys :
            /\ (stopCall = None /\ stopCall' # None /\ StopIfExists(k)) =>
                    /\ cancels[k] = 0
                    /\ ~tasks[k].task.cancel
                    /\ tasks'[k] = None
            /\ (/\ cancels[k] >= 1
                /\ stopCall = None
                /\ stopCall' # None \/ pret'.op = "stop_if_exists"
                /\ StopIfExists(k)) =>
                    /\ pret' = StopRet(k, "NotFound")
                    /\ stopCall' = None
                    /\ cancels' = cancels]_vars

\* one stop_if_exists call has cancelled the handle of a key and the next one
\* for the key has returned NotFound
C11_Witness ==
    /\ pret.op = "stop_if_exists"
    /\ pret.val.outcome = "NotFound"
    /\ cancels[pret.key] = 1
    /\ stopCall = None

\* C12: while a stop_if_exists(k1) call is suspended, awaiting the cancellation
\* of the task of k1, every registry operation on a different key k2 (add_task,
\* check_if_still_running, get_task_result, get_task_progress, stop_if_exists)
\* can start and complete.
C12_OtherKeysNotBlocked ==
    (stopCall # None /\ ~is_finished(stopCall.task)) =>
        \A k2 \in Keys \ {stopCall.key} :
            /\ ENABLED AddTask(k2)
            /\ ENABLED CheckIfStillRunning(k2)
            /\ ENABLED GetTaskResult(k2)
            /\ ENABLED GetTaskProgress(k2)
            /\ ENABLED StopIfExists(k2)

\* C13: a key is present exactly while an item added for it has not been
\* removed by stop_if_exists, and an item that is tracked under its key stays
\* the item tracked under that key in every step except the stop_if_exists
\* step that removes the key: no add_task puts another item in its place, and
\* no query and no completion of its task removes it.
C13_TrackedUntilStopped ==
    /\ [](\A k \in Keys : tasks[k] # None <=> (k \in added /\ k \notin stopped))
    /\ [][\A k \in Keys :
            tasks[k] # None =>
                \/ stopCall = None /\ stopCall' # None /\ StopIfExists(k)
                \/ /\ tasks'[k] # None
                   /\ ~(pret'.op = "add_task" /\ pret'.key = k /\ AddTask(k))]_vars

\* C14: get_task_result(key) returns None for a key that was never added, None
\* for a key without an entry, None while the tracked task is running,
\* Some(true) once it has finished successfully and Some(false) once it has
\* finished unsuccessfully; a key that was never added has no entry, and the
\* result is never Some for a key without an entry.
C14_GetTaskResult ==
    /\ [](\A k \in Keys \ added : tasks[k] = None)
    /\ [][\A k \in Keys :
            (pret'.op = "get_task_result" /\ pret'.key = k /\ GetTaskResult(k)) =>
                pret'.val.result =
                    IF k \notin added \/ tasks[k] = None THEN None
                    ELSE CASE tasks[k].task.state = "running" -> None
                           [] tasks[k].task.state = "ok"      -> Some(TRUE)
                           [] OTHER                           -> Some(FALSE)]_vars

\* get_task_result has returned Some(false) for a tracked task that has failed
C14_Witness ==
    /\ pret.op = "get_task_result"
    /\ tasks[pret.key] # None
    /\ tasks[pret.key].task.state = "failed"
    /\ pret.val.result = Some(FALSE)

\* C15: check_if_still_running(key) returns true exactly when the key has an
\* entry whose task has not finished, hence false for a key without an entry
\* and true while the tracked task runs; and once the task of an entry has
\* completed, for as long as that entry is the one tracked under the key the
\* task stays completed, check_if_still_running stays false and get_task_result
\* is not None (it is Some(true) after a successful completion).
C15_StillRunning ==
    [][\A k \in Keys :
        /\ (pret'.op = "check_if_still_running" /\ pret'.key = k
                /\ CheckIfStillRunning(k)) =>
              pret'.val.running = (tasks[k] # None /\ tasks[k].task.state = "running")
        /\ (/\ tasks[k] # None
            /\ tasks[k].task.state # "running"
            /\ tasks'[k] # None
            /\ ~(pret'.op = "add_task" /\ pret'.key = k /\ AddTask(k))) =>
              /\ tasks'[k].task.state = tasks[k].task.state
              /\ ~check_if_still_running(tasks', k)
              /\ get_task_result(tasks', k) # None
              /\ tasks[k].task.state = "ok" => get_task_result(tasks', k) = Some(TRUE)]_vars

\* check_if_still_running has returned false for a tracked task that has
\* completed successfully
C15_Witness ==
    /\ pret.op = "check_if_still_running"
    /\ tasks[pret.key] # None
    /\ tasks[pret.key].task.state = "ok"
    /\ pret.val.running = FALSE

\* ------------------------------------------------------------------------
\* Properties of the shared progress
\* ------------------------------------------------------------------------
\* C16: get_task_progress(key) returns None for a key without an entry;
\* otherwise it copies records_done and records_total while it holds the
\* progress lock, no update of the transfer task is under way during the copy,
\* and the pair it returns is a pair the progress held at one instant of the
\* call, under every interleaving with a task that writes both fields inside
\* one critical section.
C16_NoTornRead ==
    /\ [](rd # None =>
            /\ tasks[rd.key] # None
            /\ plock[rd.key] = "reader"
            /\ wr[rd.key] = None)
    /\ [][/\ \A k \in Keys :
                (rd = None /\ GetTaskProgressBegin(k)) =>
                    IF tasks[k] = None
                    THEN /\ rd' = None
                         /\ pret' = [op |-> "get_task_progress", key |-> k,
                                     val |-> [progress |-> None]]
                    ELSE /\ rd' # None
                         /\ rd'.key = k
                         /\ pret' = pret
          /\ (rd # None /\ GetTaskProgressEnd) =>
                /\ pret'.op = "get_task_progress"
                /\ pret'.key = rd.key
                /\ pret'.val.progress # None
                /\ pret'.val.progress.some \in seen
                /\ pret'.val.progress.some = tasks[rd.key].progress]_vars

\* get_task_progress has returned the pair that the task wrote in one update
\* of both fields, and the task is in the middle of its next update
C16_Witness ==
    /\ pret.op = "get_task_progress"
    /\ pret.val.progress = Some([records_done |-> 1, records_total |-> MaxRecords])
    /\ rd = None
    /\ wr[pret.key] # None

\* ------------------------------------------------------------------------
\* Further properties of the clock pool
\* ------------------------------------------------------------------------
\* the live guards that reference the allocation a
GuardsOf(a) == {w \in Live : guard[w].clock = a}

\* C17: the exclusivity flag of a clock is set (available = false) exactly when
\* one live guard for that clock exists, and there is never more than one; the
\* drop of a guard finds the flag of its clock set and clears it, once, and
\* touches no other flag; a lock attempt that fails leaves the flag set and
\* every guard as it was.
C17_FlagIffGuard ==
    /\ [](\A a \in 1..Len(heap) :
            /\ Cardinality(GuardsOf(a)) <= 1
            /\ ~heap[a].available <=> Cardinality(GuardsOf(a)) = 1)
    /\ [][\A w \in Writers :
            /\ DropStep(w) =>
                  LET a == guard[w].clock IN
                  /\ ~heap[a].available
                  /\ heap'[a].available
                  /\ GuardsOf(a) = {w}
                  /\ \A b \in (1..Len(heap)) \ {a} :
                        heap'[b].available = heap[b].available
            /\ (pc[w] = "scan" /\ pc'[w] = "scan" /\ pos' # pos) =>
                  LET a == clocks[pos + 1] IN
                  /\ ~heap[a].available
                  /\ ~heap'[a].available
                  /\ guard' = guard
                  /\ heap' = heap]_vars

\* a lock attempt has failed on clock 0, which one writer holds, after an
\* earlier guard was dropped
C17_Witness ==
    /\ Scanning # {}
    /\ pos = 1
    /\ anyDrop
    /\ ~heap[clocks[1]].available
    /\ Cardinality(GuardsOf(clocks[1])) = 1

\* C18: the ids of the pool are its indices 0 .. N-1: every index holds a clock
\* of its own, every id that get_clock returns is one of them and a new clock
\* gets the id N; the pool never shrinks and the clock stored at an index never
\* changes; the id of every live guard is the index at which its clock is
\* stored, from the creation of the guard to its drop.
C18_StableDenseIds ==
    /\ [](/\ \A i \in 1..Len(clocks) : clocks[i] \in 1..Len(heap)
          /\ \A i, j \in 1..Len(clocks) : clocks[i] = clocks[j] => i = j
          /\ \A w \in Live :
                /\ guard[w].id \in 0..(Len(clocks) - 1)
                /\ clocks[guard[w].id + 1] = guard[w].clock)
    /\ [][/\ Len(clocks') >= Len(clocks)
          /\ Len(clocks') <= Len(clocks) + 1
          /\ SubSeq(clocks', 1, Len(clocks)) = clocks
          /\ \A w \in Writers :
                /\ (guard[w] # None /\ guard'[w] # None) => guard'[w] = guard[w]
                /\ (guard[w] = None /\ guard'[w] # None) =>
                      /\ guard'[w].id \in 0..(Len(clocks') - 1)
                      /\ Len(clocks') > Len(clocks) => guard'[w].id = Len(clocks)]_vars

\* clock 0 has been released while the guard of clock 1 is still alive
C18_Witness ==
    /\ Len(clocks) = 2
    /\ anyDrop
    /\ heap[clocks[1]].available
    /\ \E w \in Live : guard[w].id = 1 /\ guard[w].clock = clocks[2]

\* C19: in every reachable state the pool holds at most as many clocks as the
\* largest number of guards that were ever live at the same instant, also when
\* guard drops interleave with the lock attempts of a scan.
C19_PoolBoundedByLive == Len(clocks) <= maxLive

\* C19, amended: in every reachable state the pool holds at most as many clocks
\* as the largest number of writes that were ever in flight at the same
\* instant, a write being in flight from its get_clock call to the drop of its
\* guard; and a get_clock call that appends a clock after a scan during which
\* no guard was dropped leaves a pool of exactly as many clocks as there are
\* guards live at its return.
C19_PoolBoundedByInFlight ==
    /\ [](/\ Len(clocks) <= maxInFlight
          /\ maxLive <= maxInFlight
          /\ maxInFlight <= NumWriters)
    /\ [][\A w \in Writers :
            (/\ pc[w] = "scan"
             /\ pc'[w] = "held"
             /\ Len(clocks') > Len(clocks)
             /\ ~dropInScan) =>
                Len(clocks') = Cardinality({v \in Writers : guard'[v] # None})]_vars

\* the pool holds two clocks although no two guards were ever live together:
\* the second clock was appended by a scan that found clock 0 held, and
\* clock 0 was dropped before the scan ended
C19_Witness ==
    /\ Len(clocks) = 2
    /\ maxLive = 1
    /\ maxInFlight = 2

\* C20: for every value the counter can hold, its maximum included, tick_once
\* returns a value strictly greater than the counter held before the call and
\* leaves the counter at a greater value: it neither wraps around nor fails.
C20_TickOnceNoOverflow ==
    [][\A w \in Writers :
        (/\ pc[w] = "held"
         /\ ret'.op \in {"tick_once", "tick_once_panic"}
         /\ TickOnce(w)) =>
            LET a == guard[w].clock IN
            /\ pc'[w] = "held"
            /\ ret'.op = "tick_once"
            /\ ret'.val > heap[a].clock
            /\ heap'[a].clock > heap[a].clock]_vars
====
